---- MODULE Spec2Model ----
(***************************************************************************)
(* Loop-closing thread of stereo_slam (src/src/loop_closing.cpp): the      *)
(* cluster queue shared with the producer, the ingest step (hash table and *)
(* on-disk store), the two candidate searches and the geometric            *)
(* verification closeLoopWithCluster with its edge insertion.              *)
(*                                                                         *)
(* Descriptor matrices, keypoint vectors and point vectors are modelled by *)
(* their sizes; descriptor matching, RANSAC and the hash similarity are    *)
(* external numeric routines and are modelled as oracles whose results are *)
(* drawn from small sets.  Transforms are left out of addEdge.             *)
(***************************************************************************)
EXTENDS Integers, Sequences, FiniteSets, TLC

\* ------------------------------------------------------------- bounds
\* Number of clusters the producer pushes in a run.
MaxClusters == 4
\* Descriptor rows (= keypoints = world points) of a non-empty cluster.
RowsFull == 6
\* Largest row count tried by the stage-1 gate specification.
MaxGateRows == 20
\* A row count for which 35.5 percent is a whole number of matches.
TieRows == 200
\* Clusters without descriptors the producer pushes in a run, at most.
MaxEmptyClusters == 1
\* Clusters that share the frame of the cluster before them, at most.
MaxSameFrame == 1
\* Largest hash table a getCandidates call is tried on.
MaxTable == 8
\* Largest number of keypoints, descriptor rows or points of a cluster
\* written to the store and read back.
MaxStoreRows == 3
\* Largest hash table, and largest cluster id, a query hash is looked up in.
MaxQueryTable == 4
MaxQueryId == 6
\* Invocations of timerCallback that may be in progress at once.
MaxTimerEvents == 2
\* Poses msgsCallback saves in a run, at most.
MaxPoses == 2

\* ---------------------------------------------------------- constants
\* Configuration constants of the loop closing (values are configuration).
LC_DISCARD_WINDOW == 2
LC_NEIGHBORS == 1
LC_MIN_INLIERS == 6
\* Literals of loop_closing.cpp.
ProximityBestN == 3
MatchPercentageGate == 35
PairVoteThreshold == 5
MaxHashCandidates == 5

\* ------------------------------------------------------------ helpers
Min(a, b) == IF a < b THEN a ELSE b

Range(s) == {s[i] : i \in DOMAIN s}

RECURSIVE SumSeq(_)
SumSeq(s) == IF s = <<>> THEN 0 ELSE Head(s) + SumSeq(Tail(s))

\* n copies of x: the loops "for j < size: list.push_back(id)".
Repeat(x, n) == [i \in 1..n |-> x]

\* All sequences without repetition over S of length min(k, |S|).
RECURSIVE SeqsNoDup(_, _)
SeqsNoDup(S, k) ==
  IF k = 0 \/ S = {} THEN {<<>>}
  ELSE UNION {{<<x>> \o t : t \in SeqsNoDup(S \ {x}, k - 1)} : x \in S}

\* ------------------------------------------------------------ clusters
\* A cluster as the loop closing sees it: sizes of kp, ldb and points.
Cluster(id, frame_id, kp, ldb, points) ==
  [id |-> id, frame_id |-> frame_id, kp |-> kp, ldb |-> ldb, points |-> points]

\* The default-constructed Cluster returned on a store miss.
EmptyCluster == Cluster(-1, -1, 0, 0, 0)

VARIABLES
  cluster_queue_,        \* list<Cluster>
  mutex_cluster_queue_,  \* "free" or the thread holding the mutex
  producer_pc,           \* position of the producer in addClusterToQueue
  driver_pc,             \* position of the driver thread in run()
  pushed,                \* clusters pushed so far, in push order (history)
  popped,                \* clusters dequeued so far, in order (history)
  c_cluster_,            \* current cluster
  hash_,                 \* hash object: initialized flag and basis
  hash_table_,           \* vector< pair<int, vector<float>> >
  store,                 \* files of execution_dir_: id -> cluster written
  lc_found_,             \* vector< pair<int,int> >
  graph_vertices,        \* vertices of the graph: id -> frame id
  graph_edges,           \* addEdge calls, in call order
  graph_updates,         \* number of Graph.update calls
  candidates,            \* candidate list of the running search
  cand_idx,              \* loop index of the running search
  lastCall,              \* what the last loop iteration of a search did
  gate,                  \* inputs and result of the stage-1 gate (SpecGate)
  getCandidatesCall,     \* inputs and result of a getCandidates call
  readBack,              \* cluster written to the store and what is read back
  execution_dir_created, \* what create_directory(execution_dir_) returned
  block_update_,         \* StereoSlamBase: timerCallback is running
  block_insertion_,      \* StereoSlamBase: the optimizer is running
  timer_pc,              \* position of each timerCallback invocation
  msgs_pc,               \* position of the msgsCallback invocation
  pose_history_          \* StereoSlamBase: number of poses saved

vars == <<cluster_queue_, mutex_cluster_queue_, producer_pc, driver_pc,
          pushed, popped, c_cluster_, hash_, hash_table_, store,
          lc_found_, graph_vertices, graph_edges, graph_updates, candidates,
          cand_idx, lastCall, gate, getCandidatesCall, readBack,
          execution_dir_created, block_update_, block_insertion_, timer_pc,
          msgs_pc, pose_history_>>

queueVars == <<cluster_queue_, mutex_cluster_queue_>>
producerVars == <<producer_pc, pushed, graph_vertices>>
ingestVars == <<c_cluster_, hash_, hash_table_, store, popped>>
graphVars == <<lc_found_, graph_edges, graph_updates>>
searchVars == <<candidates, cand_idx, lastCall>>
baseVars == <<block_update_, block_insertion_, timer_pc, msgs_pc, pose_history_>>
probeVars == <<getCandidatesCall, readBack, execution_dir_created, baseVars>>

\* What lastCall holds when no candidate has been looked at in the tick.
NoCall ==
  [search |-> "none", called |-> FALSE, cur |-> -1, cand |-> -1, cur_rows |-> 0,
   cand_rows |-> 0, was_recorded |-> FALSE, div_by_zero |-> FALSE,
   ret |-> FALSE, edges |-> <<>>, records |-> <<>>, updates |-> 0,
   gate_passed |-> FALSE, matches_2 |-> 0, ransac |-> FALSE, inliers |-> <<>>,
   calls |-> <<>>, neighbors |-> <<>>, frame_clusters |-> <<>>,
   cpool |-> <<>>, fpool |-> <<>>, failed |-> {},
   cluster_candidate_list |-> <<>>, cluster_frame_list |-> <<>>,
   match_idx |-> <<>>]

\* ------------------------------------------------------ cluster queue
\* mutex::scoped_lock lock(mutex_cluster_queue_): the constructor returns
\* once the mutex is free, and takes it.
ScopedLockNoWait(m) == TRUE
ScopedLockCanTake(m) == m = "free"

\* cluster_queue_.front() of processNewCluster.
QueueBack(q) == q[Len(q)]
QueueFront(q) == Head(q)

\* cluster_queue_.pop_front() of processNewCluster.
QueuePopFront(q) == Tail(q)

\* The clusters the producer may hand over after those of `before`: the next
\* id (ids count from 0), the frame of the previous cluster or a new frame,
\* an empty or a full feature set.
ProducedClusters(before) ==
  LET next_id == Len(before)
      last_frame == IF before = <<>> THEN -1 ELSE before[Len(before)].frame_id
  IN {Cluster(next_id, f, r, r, r) :
        f \in {last_frame + 1}
              \cup (IF before # <<>> /\ next_id - (last_frame + 1) < MaxSameFrame
                    THEN {last_frame} ELSE {}),
        r \in {RowsFull}
              \cup (IF Cardinality({i \in DOMAIN before : before[i].ldb = 0})
                        < MaxEmptyClusters
                    THEN {0} ELSE {})}

\* addClusterToQueue, line 97: the producer takes the mutex.
AddClusterToQueueLock ==
  /\ producer_pc = "idle"
  /\ Len(pushed) < MaxClusters
  /\ ScopedLockCanTake(mutex_cluster_queue_)
  /\ mutex_cluster_queue_' = "producer"
  /\ producer_pc' = "push_locked"
  /\ UNCHANGED <<cluster_queue_, pushed, graph_vertices,
                 driver_pc, ingestVars, graphVars, searchVars, gate, probeVars>>

\* addClusterToQueue, lines 98-99: push_back and release.  The cluster is a
\* vertex of the graph by the time it is queued.
AddClusterToQueue ==
  /\ producer_pc = "push_locked"
  /\ \E cluster \in ProducedClusters(pushed) :
       /\ cluster_queue_' = Append(cluster_queue_, cluster)
       /\ pushed' = Append(pushed, cluster)
       /\ graph_vertices' = graph_vertices @@ (cluster.id :> cluster.frame_id)
  /\ mutex_cluster_queue_' = "free"
  /\ producer_pc' = "idle"
  /\ UNCHANGED <<driver_pc, ingestVars, graphVars, searchVars, gate, probeVars>>

\* checkNewClusterInQueue, line 103: the driver takes the mutex.
CheckNewClusterInQueueLock ==
  /\ driver_pc = "check"
  /\ ScopedLockCanTake(mutex_cluster_queue_)
  /\ mutex_cluster_queue_' = "driver"
  /\ driver_pc' = "check_locked"
  /\ UNCHANGED <<cluster_queue_, producerVars, ingestVars, graphVars, searchVars, gate, probeVars>>

\* run(), lines 61-69: the tick processes a cluster and searches when
\* checkNewClusterInQueue is true, else goes on to the publications.
AfterCheckAlwaysProcess(q) == "process"
AfterCheckNeverProcess(q) == "publish"
AfterCheck(q) == IF q # <<>> THEN "process" ELSE "publish"

\* checkNewClusterInQueue, line 104, and the branch of run(), line 61.
CheckNewClusterInQueue ==
  /\ driver_pc = "check_locked"
  /\ mutex_cluster_queue_' = "free"
  /\ driver_pc' = AfterCheck(cluster_queue_)
  /\ UNCHANGED <<cluster_queue_, producerVars, ingestVars, graphVars, searchVars, gate, probeVars>>

\* processNewCluster, line 111: the driver takes the mutex.
ProcessNewClusterLock ==
  /\ driver_pc = "process"
  /\ ScopedLockCanTake(mutex_cluster_queue_)
  /\ mutex_cluster_queue_' = "driver"
  /\ driver_pc' = "process_locked"
  /\ UNCHANGED <<cluster_queue_, producerVars, ingestVars, graphVars, searchVars, gate, probeVars>>

\* hash_.init: the basis is taken from the descriptors it is given.
HashInitAlways(h, cluster) == [initialized |-> TRUE, basis |-> cluster.id]
HashInit(h, cluster) ==
  IF h.initialized THEN h ELSE [initialized |-> TRUE, basis |-> cluster.id]

\* hash_.getHash: the hash of a cluster under the basis in use.
GetHash(h, cluster) == [basis |-> h.basis, of |-> cluster.id]

\* Lines 124-129: the file of a cluster holds its frame id, its keypoints,
\* its descriptors (ldb) and its points, under "frame_id", "kp", "desc" and
\* "points"; sizes stand for the vectors and the matrix.
WriteClusterNoPoints(c) ==
  [frame_id |-> c.frame_id, kp |-> c.kp, desc |-> c.ldb, points |-> 0]
WriteCluster(c) ==
  [frame_id |-> c.frame_id, kp |-> c.kp, desc |-> c.ldb, points |-> c.points]

\* cv::FileStorage(execution_dir_/<id>.yml, WRITE): the file of id is
\* created or replaced, the other files are left alone.
StoreWriteNothing(files, id, file) == files
StoreWrite(files, id, file) ==
  [k \in DOMAIN files \cup {id} |-> IF k = id THEN file ELSE files[k]]

\* Line 124 after run(), lines 28-30: in the directory run() created the
\* file opens for writing; when create_directory returned false the
\* directory may be there all the same or not, and the file opens or not.
FileStorageOpens(created) == IF created THEN {TRUE} ELSE {TRUE, FALSE}

\* Lines 125-129: the writes to a file that is open are made and the driver
\* goes on to the searches; the first write to a file that did not open
\* raises an exception nothing catches, which ends the driver.
StoreAfterWrite(files, id, file, opened) ==
  IF opened THEN StoreWrite(files, id, file) ELSE files
DriverAfterWrite(opened) == IF opened THEN "proximity" ELSE "aborted"

\* Line 121: hash_table_.push_back(make_pair(id, hash)).
HashTablePushFront(table, entry) == <<entry>> \o table
HashTablePushBack(table, entry) == Append(table, entry)

\* processNewCluster, lines 112-129: front, pop_front, release; then the
\* hash initialisation, the hash table entry and the file of the cluster.
\* front() of an empty list is undefined: the model stops there.
ProcessNewCluster ==
  /\ driver_pc = "process_locked"
  /\ cluster_queue_ # <<>>
  /\ LET c == QueueFront(cluster_queue_)
         h == HashInit(hash_, c)
     IN /\ c_cluster_' = c
        /\ cluster_queue_' = QueuePopFront(cluster_queue_)
        /\ popped' = Append(popped, c)
        /\ hash_' = h
        /\ hash_table_' = HashTablePushBack(hash_table_, <<c.id, GetHash(h, c)>>)
        /\ \E opened \in FileStorageOpens(execution_dir_created) :
             /\ store' = StoreAfterWrite(store, c.id, WriteCluster(c), opened)
             /\ driver_pc' = DriverAfterWrite(opened)
  /\ mutex_cluster_queue_' = "free"
  /\ UNCHANGED <<producerVars, graphVars, searchVars, gate, probeVars>>

\* run(), lines 83-89: the queue depth is published when someone listens.
\* The searches of the tick are over: lastCall is cleared.
PublishNoSubscribers ==
  /\ driver_pc = "publish"
  /\ driver_pc' = "check"
  /\ lastCall' = NoCall
  /\ UNCHANGED <<queueVars, producerVars, ingestVars, graphVars, candidates, cand_idx, gate, probeVars>>

PublishQueueLock ==
  /\ driver_pc = "publish"
  /\ ScopedLockCanTake(mutex_cluster_queue_)
  /\ mutex_cluster_queue_' = "driver"
  /\ driver_pc' = "depth_locked"
  /\ lastCall' = NoCall
  /\ UNCHANGED <<cluster_queue_, producerVars, ingestVars, graphVars, candidates, cand_idx, gate, probeVars>>

PublishQueue ==
  /\ driver_pc = "depth_locked"
  /\ mutex_cluster_queue_' = "free"
  /\ driver_pc' = "check"
  /\ UNCHANGED <<cluster_queue_, producerVars, ingestVars, graphVars, searchVars, gate, probeVars>>

\* ------------------------------------------------------------ the graph
\* Graph::findClosestVertices(vertex_id, window_center, window, best_n):
\* the best_n vertices closest to vertex_id (all of them when there are
\* fewer) among those other than vertex_id and outside the discard window
\* around window_center; the poses decide which, and their order.
FindClosestVertices(vertex_id, window_center, window, best_n) ==
  SeqsNoDup({v \in DOMAIN graph_vertices :
               /\ v # vertex_id
               /\ ~(v > window_center - window /\ v < window_center + window)},
            best_n)

\* Graph::getFrameVertices(frame_id): the vertices of a frame, oldest first.
RECURSIVE VerticesOfFrame(_, _)
VerticesOfFrame(frame_id, from) ==
  IF from \notin DOMAIN graph_vertices THEN <<>>
  ELSE (IF graph_vertices[from] = frame_id THEN <<from>> ELSE <<>>)
       \o VerticesOfFrame(frame_id, from + 1)

GetFrameVertices(frame_id) == VerticesOfFrame(frame_id, 0)

\* ------------------------------------------------------------ the store
\* readCluster: the default cluster when the file does not exist, else the
\* cluster rebuilt from the "frame_id", "kp", "desc" and "points" of the
\* file (line 615).
ReadCluster(id) ==
  IF id \notin DOMAIN store THEN EmptyCluster
  ELSE Cluster(id, store[id].frame_id, store[id].kp, store[id].desc, store[id].points)

\* --------------------------------------------------- stage 1: the gate
\* Tools::ratioMatching(query, train): at most one match per query row, and
\* none without a second-best train row to compare with.
RatioMatchingSizes(query_rows, train_rows) ==
  IF train_rows < 2 THEN {0} ELSE 0..query_rows

\* round(num / den) for num >= 0 and den > 0: halves round away from zero.
RoundDivTruncated(num, den) == num \div den
RoundDiv(num, den) == (2 * num + den) \div (2 * den)

\* What int m_percentage may hold after line 212.  With min(size_c, size_n)
\* = 0 the quotient is 0/0 = NaN, and the conversion of NaN to int is
\* undefined: the smallest int, zero or any other value.
MatchPercentages(matches, size_c, size_n) ==
  IF Min(size_c, size_n) = 0
  THEN {-2147483647 - 1, 0, 2147483647}
  ELSE {RoundDiv(100 * matches, Min(size_c, size_n))}

PassesGate(m_percentage) == m_percentage > MatchPercentageGate

\* ------------------------------------- stage 2: neighbourhood pools
RECURSIVE Concat(_)
Concat(ss) == IF ss = <<>> THEN <<>> ELSE Head(ss) \o Concat(Tail(ss))

\* if (candidate.getLdb().rows == 0) continue; (lines 139, 160, 243, 276).
HasNoDescriptorsNever(cluster) == FALSE
HasNoDescriptors(cluster) == cluster.ldb = 0

\* The clusters read for a list of ids, those without descriptors skipped
\* (lines 241-243 and 274-276).
RECURSIVE ReadNonEmpty(_)
ReadNonEmpty(ids) ==
  IF ids = <<>> THEN <<>>
  ELSE (IF HasNoDescriptors(ReadCluster(Head(ids))) THEN <<>>
        ELSE <<ReadCluster(Head(ids))>>)
       \o ReadNonEmpty(Tail(ids))

\* Lines 228-260: the candidate and its neighbours.
CandidatePool(candidate, candidate_neighbors) ==
  <<candidate>> \o ReadNonEmpty(candidate_neighbors)

\* Lines 223-286: the current cluster and the other clusters of its frame.
FramePool(frame_clusters) ==
  <<c_cluster_>> \o ReadNonEmpty(SelectSeq(frame_clusters, LAMBDA v : v # c_cluster_.id))

\* cluster_candidate_list: one entry per world point of each pool cluster.
ClusterCandidateList(pool) ==
  Concat([i \in 1..Len(pool) |-> Repeat(pool[i].id, pool[i].points)])

\* cluster_frame_list: one entry per keypoint of each pool cluster.
ClusterFrameListAllCurrent(pool) ==
  Repeat(pool[1].id, SumSeq([i \in 1..Len(pool) |-> pool[i].kp]))
ClusterFrameList(pool) ==
  Concat([i \in 1..Len(pool) |-> Repeat(pool[i].id, pool[i].kp)])

\* Rows of all_frame_desc / all_candidate_desc (vconcat of the ldb).
PoolRows(pool) == SumSeq([i \in 1..Len(pool) |-> pool[i].ldb])

\* First row (from 1) of pool cluster i in the concatenated descriptors.
RowOffset(pool, i) == SumSeq([j \in 1..(i - 1) |-> pool[j].ldb])

\* ------------------------------- stages 3 and 4: matching and RANSAC
\* The outcome of Tools::ratioMatching on the two pools followed by
\* solvePnPRansac, drawn per pair of pool clusters: cnt[f][g] inliers join
\* rows of frame-pool cluster f to candidate-pool cluster g, and extra
\* matches are no inliers.  A query row carries at most one match.
InlierCounts == {0, PairVoteThreshold - 1, PairVoteThreshold, LC_MIN_INLIERS}

\* The coarser outcomes tried inside whole runs: per pair of pool clusters
\* no inlier or enough of them, and no match that is no inlier.
RunInlierCounts == {0, LC_MIN_INLIERS}

InliersOfFrame(cnt, f) == SumSeq(cnt[f])

InliersTotal(cnt) == SumSeq([f \in 1..Len(cnt) |-> InliersOfFrame(cnt, f)])

\* The inlier counts of the first F frame-pool clusters: cnt[f][g].
RECURSIVE InlierTables(_, _, _, _)
InlierTables(fpool, cpool, counts, F) ==
  IF F = 0 THEN {<<>>}
  ELSE LET rows == {r \in [1..Len(cpool) -> counts] : SumSeq(r) <= fpool[F].ldb}
       IN UNION {{Append(t, r) : r \in rows} :
                   t \in InlierTables(fpool, cpool, counts, F - 1)}

MatchOracles(fpool, cpool, counts, extras) ==
  {o \in [cnt : InlierTables(fpool, cpool, counts, Len(fpool)), extra : extras] :
     InliersTotal(o.cnt) + o.extra
       \in RatioMatchingSizes(PoolRows(fpool), PoolRows(cpool))}

NoMatches(fpool, cpool) ==
  [cnt |-> [f \in 1..Len(fpool) |-> [g \in 1..Len(cpool) |-> 0]], extra |-> 0]

\* matches_2 for an oracle: cv::DMatch as [queryIdx, trainIdx], rows from 1.
\* The matches of frame-pool cluster f take its first rows in turn; the
\* match that is no inlier takes the last row of a cluster with a row left.
MatchesOfFrame(fpool, cpool, o, f) ==
  Concat([g \in 1..Len(cpool) |->
            [k \in 1..o.cnt[f][g] |->
               [queryIdx |-> RowOffset(fpool, f)
                               + SumSeq([h \in 1..(g - 1) |-> o.cnt[f][h]]) + k,
                trainIdx |-> RowOffset(cpool, g) + 1]]])

Matches2(fpool, cpool, o) ==
  Concat([f \in 1..Len(fpool) |-> MatchesOfFrame(fpool, cpool, o, f)])
  \o (IF o.extra = 0 THEN <<>>
      ELSE LET free == {f \in 1..Len(fpool) :
                          InliersOfFrame(o.cnt, f) < fpool[f].ldb}
               f == CHOOSE x \in free : \A y \in free : y <= x
           IN <<[queryIdx |-> RowOffset(fpool, f) + fpool[f].ldb,
                 trainIdx |-> PoolRows(cpool)]>>)

\* inliers of solvePnPRansac: indices into the matched points, ascending.
Inliers(fpool, cpool, o) ==
  [i \in 1..InliersTotal(o.cnt) |-> i]

\* Lines 292 and 318.
EnoughInliersLoose(n) == n >= LC_MIN_INLIERS - 1
EnoughInliers(n) == n >= LC_MIN_INLIERS

\* ------------------------------------------- stage 5: votes per pair
\* Lines 347-357: position of the pair in cluster_pairs, 0 when not found.
IndexOfPair(cluster_pairs, pair) ==
  IF \E j \in DOMAIN cluster_pairs : cluster_pairs[j] = pair
  THEN CHOOSE j \in DOMAIN cluster_pairs :
         /\ cluster_pairs[j] = pair
         /\ \A k \in 1..(j - 1) : cluster_pairs[k] # pair
  ELSE 0

\* Lines 327-369: cluster_pairs and inliers_per_pair, inlier by inlier.
RECURSIVE InliersPerClusterPair(_, _, _, _, _)
InliersPerClusterPair(inliers, frame_matchings, candidate_matchings, i, acc) ==
  IF i > Len(inliers) THEN acc
  ELSE LET pair == <<frame_matchings[inliers[i]], candidate_matchings[inliers[i]]>>
           idx == IndexOfPair(acc.cluster_pairs, pair)
       IN InliersPerClusterPair(inliers, frame_matchings, candidate_matchings, i + 1,
            IF idx # 0
            THEN [acc EXCEPT !.inliers_per_pair[idx] = @ + 1]
            ELSE [cluster_pairs |-> Append(acc.cluster_pairs, pair),
                  inliers_per_pair |-> Append(acc.inliers_per_pair, 1)])

\* ------------------------------------------ stage 6: edge insertion
\* Line 374.
KeepsPairStrict(inliers_of_pair) == inliers_of_pair > PairVoteThreshold
KeepsPair(inliers_of_pair) == inliers_of_pair >= PairVoteThreshold

\* Lines 372-389: the positions of the pairs that get an edge, in order.
RECURSIVE SurvivingPairs(_, _)
SurvivingPairs(inliers_per_pair, i) ==
  IF i > Len(inliers_per_pair) THEN <<>>
  ELSE (IF KeepsPair(inliers_per_pair[i]) THEN <<i>> ELSE <<>>)
       \o SurvivingPairs(inliers_per_pair, i + 1)

\* Line 386: graph_->addEdge(cluster_pairs[i][1], cluster_pairs[i][0], edge_1,
\* inliers_per_pair[i]); the transform is left out.
AddedEdges(votes) ==
  LET keep == SurvivingPairs(votes.inliers_per_pair, 1)
  IN [k \in 1..Len(keep) |->
        [from |-> votes.cluster_pairs[keep[k]][2],
         to |-> votes.cluster_pairs[keep[k]][1],
         weight |-> votes.inliers_per_pair[keep[k]]]]

\* Line 387: lc_found_.push_back(make_pair(cluster_pairs[i][0], cluster_pairs[i][1])).
AddedRecordsOnce(votes) ==
  LET keep == SurvivingPairs(votes.inliers_per_pair, 1)
  IN [k \in 1..Min(1, Len(keep)) |-> votes.cluster_pairs[keep[k]]]
AddedRecords(votes) ==
  LET keep == SurvivingPairs(votes.inliers_per_pair, 1)
  IN [k \in 1..Len(keep) |-> votes.cluster_pairs[keep[k]]]

\* Lines 372-389 and 530: the calls that change the graph, in the order they
\* are made: one addEdge per surviving pair, then update.
GraphCallsUpdateFirst(votes) ==
  <<"update">> \o [k \in 1..Len(AddedEdges(votes)) |-> "addEdge"]
GraphCalls(votes) ==
  [k \in 1..Len(AddedEdges(votes)) |-> "addEdge"] \o <<"update">>

\* Number of Graph.update calls among the calls.
UpdateCalls(calls) == Cardinality({k \in DOMAIN calls : calls[k] = "update"})

\* Line 532.
ReturnAfterUpdateNegated == FALSE
ReturnAfterUpdate == TRUE

\* ------------------------------------------- closeLoopWithCluster
\* The result of closeLoopWithCluster(candidate) for a value of m_percentage,
\* the neighbours the graph returns and an outcome of matching and RANSAC:
\* the return value, the addEdge calls, the records pushed to lc_found_, the
\* number of Graph.update calls and the order of the graph calls, with how
\* far the verification got.
CloseLoopWithCluster(candidate, m_percentage, candidate_neighbors, o) ==
  LET cpool == CandidatePool(candidate, candidate_neighbors)
      fpool == FramePool(GetFrameVertices(c_cluster_.frame_id))
      cluster_candidate_list == ClusterCandidateList(cpool)
      cluster_frame_list == ClusterFrameList(fpool)
      matches_2 == Matches2(fpool, cpool, o)
      frame_matchings ==
        [j \in 1..Len(matches_2) |-> cluster_frame_list[matches_2[j].queryIdx]]
      candidate_matchings ==
        [j \in 1..Len(matches_2) |-> cluster_candidate_list[matches_2[j].trainIdx]]
      inliers == Inliers(fpool, cpool, o)
      votes == InliersPerClusterPair(inliers, frame_matchings, candidate_matchings, 1,
                 [cluster_pairs |-> <<>>, inliers_per_pair |-> <<>>])
      rejected == [ret |-> FALSE, edges |-> <<>>, records |-> <<>>, updates |-> 0,
                   gate_passed |-> FALSE, matches_2 |-> 0, ransac |-> FALSE,
                   inliers |-> <<>>, calls |-> <<>>, neighbors |-> <<>>,
                   frame_clusters |-> <<>>, cpool |-> <<>>, fpool |-> <<>>,
                   cluster_candidate_list |-> <<>>, cluster_frame_list |-> <<>>,
                   match_idx |-> <<>>]
      pools == [neighbors |-> candidate_neighbors,
                frame_clusters |-> GetFrameVertices(c_cluster_.frame_id),
                cpool |-> [i \in 1..Len(cpool) |-> cpool[i].id],
                fpool |-> [i \in 1..Len(fpool) |-> fpool[i].id]]
  IN IF ~PassesGate(m_percentage) THEN rejected
     ELSE IF ~EnoughInliers(Len(matches_2))
     THEN [rejected EXCEPT !.gate_passed = TRUE, !.matches_2 = Len(matches_2),
                           !.neighbors = pools.neighbors,
                           !.frame_clusters = pools.frame_clusters,
                           !.cpool = pools.cpool, !.fpool = pools.fpool,
                           !.cluster_candidate_list = cluster_candidate_list,
                           !.cluster_frame_list = cluster_frame_list,
                           !.match_idx = matches_2]
     ELSE IF ~EnoughInliers(Len(inliers))
     THEN [rejected EXCEPT !.gate_passed = TRUE, !.matches_2 = Len(matches_2),
                           !.neighbors = pools.neighbors,
                           !.frame_clusters = pools.frame_clusters,
                           !.cpool = pools.cpool, !.fpool = pools.fpool,
                           !.cluster_candidate_list = cluster_candidate_list,
                           !.cluster_frame_list = cluster_frame_list,
                           !.match_idx = matches_2,
                           !.ransac = TRUE,
                           !.inliers = [i \in 1..Len(inliers) |->
                              <<frame_matchings[inliers[i]], candidate_matchings[inliers[i]]>>]]
     ELSE [ret |-> ReturnAfterUpdate,
           edges |-> AddedEdges(votes),
           records |-> AddedRecords(votes),
           updates |-> UpdateCalls(GraphCalls(votes)),
           calls |-> GraphCalls(votes),
           gate_passed |-> TRUE,
           matches_2 |-> Len(matches_2),
           ransac |-> TRUE,
           inliers |-> [i \in 1..Len(inliers) |->
              <<frame_matchings[inliers[i]], candidate_matchings[inliers[i]]>>],
           neighbors |-> pools.neighbors,
           frame_clusters |-> pools.frame_clusters,
           cpool |-> pools.cpool,
           fpool |-> pools.fpool,
           cluster_candidate_list |-> cluster_candidate_list,
           cluster_frame_list |-> cluster_frame_list,
           match_idx |-> matches_2]

\* ------------------------------------------------------ getCandidates
\* Largest similarity hash_.match returns in the model (from 0).
MaxSimilarity == 1

\* Line 566.
InDiscardWindowNarrow(id, cluster_id) ==
  /\ id > cluster_id - LC_DISCARD_WINDOW + 1
  /\ id < cluster_id + LC_DISCARD_WINDOW - 1
InDiscardWindow(id, cluster_id) ==
  /\ id > cluster_id - LC_DISCARD_WINDOW
  /\ id < cluster_id + LC_DISCARD_WINDOW

\* Lines 549-556: the clusters already closed with cluster_id.
NoCandidates(lc_found, cluster_id) ==
  {lc[2] : lc \in {x \in Range(lc_found) : x[1] = cluster_id}}
  \cup {lc[1] : lc \in {x \in Range(lc_found) : x[2] = cluster_id}}

\* Line 559: hash_q = hash_table_[cluster_id].second; the position (from 1)
\* of the entry whose hash is the query.  A position outside the table is
\* a read past the end of the vector: hash_.match then compares whatever is
\* read, which the similarities drawn per position stand for.
QueryPosition(cluster_id) == cluster_id + 1

\* Lines 563-579: the stored hashes that are matched, in table order, each
\* with the similarity hash_.match gives it (drawn per table position).
AllMatchings(table, lc_found, cluster_id, similarity) ==
  LET kept == SelectSeq([i \in 1..Len(table) |-> i],
                LAMBDA i : /\ ~InDiscardWindow(table[i][1], cluster_id)
                           /\ table[i][1] # cluster_id
                           /\ table[i][1] \notin NoCandidates(lc_found, cluster_id))
  IN [k \in 1..Len(kept) |-> <<table[kept[k]][1], similarity[kept[k]]>>]

\* Line 582: std::sort by Tools::sortByMatching, best similarity first; the
\* order of equal similarities is not fixed.
UnsortedMatchings(all_matchings) == {all_matchings}
SortedByMatching(all_matchings) ==
  {[k \in 1..Len(p) |-> all_matchings[p[k]]] :
     p \in {q \in SeqsNoDup(DOMAIN all_matchings, Len(all_matchings)) :
              /\ Len(q) = Len(all_matchings)
              /\ \A k \in 1..(Len(q) - 1) :
                   all_matchings[q[k]][2] >= all_matchings[q[k + 1]][2]}}

\* Line 546: "Check if enough neighbors".
NotEnoughNeighborsStrict(table) == Len(table) < LC_DISCARD_WINDOW
NotEnoughNeighbors(table) == Len(table) <= LC_DISCARD_WINDOW

\* Lines 584-588: the best max_size matchings.
BestMatchingsFirstTwice(sorted) ==
  SubSeq(sorted, 1, Min(1, Len(sorted)))
    \o SubSeq(sorted, 1, Min(MaxHashCandidates - 1, Len(sorted)))
BestMatchings(sorted) == SubSeq(sorted, 1, Min(MaxHashCandidates, Len(sorted)))

\* getCandidates(cluster_id, candidates) when hash_.match gives table
\* position i the similarity similarity[i]: the lists it may return.
GetCandidatesWith(table, lc_found, cluster_id, similarity) ==
  IF NotEnoughNeighbors(table) THEN {<<>>}
  ELSE {BestMatchings(sorted) :
          sorted \in SortedByMatching(
                       AllMatchings(table, lc_found, cluster_id, similarity))}

\* getCandidates(cluster_id, candidates): the lists it may return.
GetCandidates(table, lc_found, cluster_id) ==
  UNION {GetCandidatesWith(table, lc_found, cluster_id, similarity) :
           similarity \in [1..Len(table) -> 0..MaxSimilarity]}

\* ------------------------------------------------- candidate searches
\* The pair is in lc_found_, in either order.
Recorded(lc_found, a, b) ==
  \E i \in DOMAIN lc_found : lc_found[i] = <<a, b>> \/ lc_found[i] = <<b, a>>

\* The candidates closeLoopWithCluster returned false for since the current
\* cluster was dequeued, with the search that tried them (history).
FailedInTick(failed, search, id, ret) ==
  IF ret THEN failed ELSE failed \cup {<<search, id>>}

\* One turn of the loop of searchByProximity (lines 138-145) or searchByHash
\* (lines 159-166) for candidate id: read it, skip it when it has no
\* descriptors, else closeLoopWithCluster.  Of the values m_percentage may
\* take for the possible numbers of stage-1 matches, one is tried per side
\* of the gate: nothing else of the call depends on it.
VerifyCandidate(search, id, counts, extras) ==
  LET candidate == ReadCluster(id)
      percentages ==
        UNION {MatchPercentages(matches_1, c_cluster_.ldb, candidate.ldb) :
                 matches_1 \in RatioMatchingSizes(c_cluster_.ldb, candidate.ldb)}
      call == [NoCall EXCEPT !.search = search, !.cur = c_cluster_.id, !.cand = id,
                             !.cur_rows = c_cluster_.ldb, !.cand_rows = candidate.ldb,
                             !.was_recorded = Recorded(lc_found_, c_cluster_.id, id),
                             !.failed = lastCall.failed]
      Apply(r) ==
        /\ lc_found_' = lc_found_ \o r.records
        /\ graph_edges' = graph_edges \o r.edges
        /\ graph_updates' = graph_updates + r.updates
        /\ lastCall' = [call EXCEPT !.called = TRUE,
                          !.div_by_zero = (Min(c_cluster_.ldb, candidate.ldb) = 0),
                          !.ret = r.ret, !.edges = r.edges, !.records = r.records,
                          !.updates = r.updates, !.gate_passed = r.gate_passed,
                          !.matches_2 = r.matches_2, !.ransac = r.ransac,
                          !.inliers = r.inliers, !.calls = r.calls,
                          !.neighbors = r.neighbors,
                          !.frame_clusters = r.frame_clusters,
                          !.cpool = r.cpool, !.fpool = r.fpool,
                          !.cluster_candidate_list = r.cluster_candidate_list,
                          !.cluster_frame_list = r.cluster_frame_list,
                          !.match_idx = r.match_idx,
                          !.failed = FailedInTick(lastCall.failed, search, id, r.ret)]
  IN IF HasNoDescriptors(candidate)
     THEN lastCall' = call /\ UNCHANGED graphVars
     ELSE \E passes \in {PassesGate(p) : p \in percentages} :
          LET m_percentage == CHOOSE p \in percentages : PassesGate(p) = passes
          IN
            IF ~PassesGate(m_percentage)
            THEN Apply(CloseLoopWithCluster(candidate, m_percentage, <<>>,
                         NoMatches(FramePool(GetFrameVertices(c_cluster_.frame_id)),
                                   CandidatePool(candidate, <<>>))))
            ELSE \E candidate_neighbors \in
                      FindClosestVertices(candidate.id, c_cluster_.id,
                                          LC_DISCARD_WINDOW, LC_NEIGHBORS) :
                 \E o \in MatchOracles(FramePool(GetFrameVertices(c_cluster_.frame_id)),
                                       CandidatePool(candidate, candidate_neighbors),
                                       counts, extras) :
                   Apply(CloseLoopWithCluster(candidate, m_percentage,
                                              candidate_neighbors, o))

\* searchByProximity, lines 134-135: the candidates the graph returns.
SearchByProximity ==
  /\ driver_pc = "proximity"
  /\ \E candidate_neighbors \in
          FindClosestVertices(c_cluster_.id, c_cluster_.id,
                              LC_DISCARD_WINDOW, ProximityBestN) :
       /\ candidates' = candidate_neighbors
       /\ driver_pc' = IF candidate_neighbors = <<>> THEN "hash" ELSE "proximity_loop"
  /\ cand_idx' = 1
  /\ UNCHANGED <<queueVars, producerVars, ingestVars, graphVars, lastCall, gate, probeVars>>

\* searchByProximity, lines 136-146: one candidate.
SearchByProximityLoop ==
  /\ driver_pc = "proximity_loop"
  /\ VerifyCandidate("proximity", candidates[cand_idx], RunInlierCounts, {0})
  /\ IF cand_idx = Len(candidates)
     THEN driver_pc' = "hash" /\ candidates' = <<>> /\ cand_idx' = 1
     ELSE driver_pc' = "proximity_loop" /\ cand_idx' = cand_idx + 1
          /\ UNCHANGED candidates
  /\ UNCHANGED <<queueVars, producerVars, ingestVars, gate, probeVars>>

\* searchByHash, lines 152-154: getCandidates and the early return.
SearchByHash ==
  /\ driver_pc = "hash"
  /\ \E hash_matching \in GetCandidates(hash_table_, lc_found_, c_cluster_.id) :
       /\ candidates' = [k \in 1..Len(hash_matching) |-> hash_matching[k][1]]
       /\ driver_pc' = IF hash_matching = <<>> THEN "publish" ELSE "hash_loop"
  /\ cand_idx' = 1
  /\ UNCHANGED <<queueVars, producerVars, ingestVars, graphVars, lastCall, gate, probeVars>>

\* searchByHash, lines 157-167: one candidate.
SearchByHashLoop ==
  /\ driver_pc = "hash_loop"
  /\ VerifyCandidate("hash", candidates[cand_idx], RunInlierCounts, {0})
  /\ IF cand_idx = Len(candidates)
     THEN driver_pc' = "publish" /\ candidates' = <<>> /\ cand_idx' = 1
     ELSE driver_pc' = "hash_loop" /\ cand_idx' = cand_idx + 1
          /\ UNCHANGED candidates
  /\ UNCHANGED <<queueVars, producerVars, ingestVars, gate, probeVars>>

\* ------------------------------------------------------ specification
NoGate == [size_c |-> 0, size_n |-> 1, matches |-> 0, applied |-> FALSE,
           m_percentage |-> 0, proceeds |-> FALSE]

\* getCandidates not called: the similarities hash_.match would give.
NoQuery == [asked |-> FALSE, early |-> FALSE, similarity |-> <<>>,
            hash_matching |-> <<>>, query_pos |-> 0]

\* Nothing written to the store and read back.
NoRead == [written |-> FALSE, read |-> FALSE, cluster |-> EmptyCluster]

\* StereoSlamBase::initializeStereoSlam, lines 223-224: both flags are
\* false; no callback has been called and no pose is saved.
InitializeStereoSlam ==
  /\ block_update_ = FALSE
  /\ block_insertion_ = FALSE
  /\ timer_pc = [t \in 1..MaxTimerEvents |-> "idle"]
  /\ msgs_pc = "idle"
  /\ pose_history_ = 0

\* The state run() starts its loop in (lines 23-56), the directory of the
\* store created.
Init ==
  /\ cluster_queue_ = <<>>
  /\ mutex_cluster_queue_ = "free"
  /\ producer_pc = "idle"
  /\ driver_pc = "check"
  /\ pushed = <<>>
  /\ popped = <<>>
  /\ c_cluster_ = EmptyCluster
  /\ hash_ = [initialized |-> FALSE, basis |-> -1]
  /\ hash_table_ = <<>>
  /\ store = <<>>
  /\ lc_found_ = <<>>
  /\ graph_vertices = <<>>
  /\ graph_edges = <<>>
  /\ graph_updates = 0
  /\ candidates = <<>>
  /\ cand_idx = 1
  /\ lastCall = NoCall
  /\ gate = NoGate
  /\ getCandidatesCall = NoQuery
  /\ readBack = NoRead
  /\ execution_dir_created = TRUE
  /\ InitializeStereoSlam

Next ==
  \/ AddClusterToQueueLock
  \/ AddClusterToQueue
  \/ CheckNewClusterInQueueLock
  \/ CheckNewClusterInQueue
  \/ ProcessNewClusterLock
  \/ ProcessNewCluster
  \/ SearchByProximity
  \/ SearchByProximityLoop
  \/ SearchByHash
  \/ SearchByHashLoop
  \/ PublishNoSubscribers
  \/ PublishQueueLock
  \/ PublishQueue

Spec == Init /\ [][Next]_vars

\* --------------------------------------------- the loop under fairness
\* The steps of the driver that need no mutex: the loop of run() goes on
\* while ros::ok() (line 57) and r.sleep() returns (line 91).
DriverStep ==
  \/ CheckNewClusterInQueue
  \/ ProcessNewCluster
  \/ SearchByProximity
  \/ SearchByProximityLoop
  \/ SearchByHash
  \/ SearchByHashLoop
  \/ PublishNoSubscribers
  \/ PublishQueue

\* The steps of the driver that take the mutex (lines 103, 111 and 84).
DriverLock ==
  \/ CheckNewClusterInQueueLock
  \/ ProcessNewClusterLock
  \/ PublishQueueLock

\* The driver keeps running; a thread that asks for the mutex gets it when
\* it is released again and again; the producer, holding the mutex, gets to
\* the end of addClusterToQueue (line 99), which releases it.
SpecLive ==
  /\ Init
  /\ [][Next]_vars
  /\ WF_vars(DriverStep)
  /\ SF_vars(DriverLock)
  /\ WF_vars(AddClusterToQueue)

\* ------------------------------------------------------ StereoSlamBase
\* Everything of LoopClosing: the callbacks of StereoSlamBase leave it alone.
loopVars == <<queueVars, producerVars, driver_pc, ingestVars, graphVars, searchVars,
              gate, getCandidatesCall, readBack, execution_dir_created>>

\* msgsCallback, lines 45-47: called; it returns when block_insertion_ is set.
MsgsCallbackCheck ==
  /\ msgs_pc = "idle"
  /\ msgs_pc' = IF block_insertion_ THEN "return" ELSE "pose"
  /\ UNCHANGED <<loopVars, block_update_, block_insertion_, timer_pc, pose_history_>>

\* msgsCallback, lines 49-104: the corrected pose, and whether the pose has
\* moved enough (or the message is the first) and the images convert.
MsgsCallbackDisplacement ==
  /\ msgs_pc = "pose"
  /\ \E displaced \in {d \in BOOLEAN : d => pose_history_ < MaxPoses} :
       msgs_pc' = IF displaced THEN "insert" ELSE "return"
  /\ UNCHANGED <<loopVars, block_update_, block_insertion_, timer_pc, pose_history_>>

\* msgsCallback, line 107: vertexInsertion is entered.
VertexInsertionBegin ==
  /\ msgs_pc = "insert"
  /\ msgs_pc' = "inserting"
  /\ UNCHANGED <<loopVars, block_update_, block_insertion_, timer_pc, pose_history_>>

\* msgsCallback, line 107: vertexInsertion returns true or false.
VertexInsertionEnd ==
  /\ msgs_pc = "inserting"
  /\ \E inserted \in BOOLEAN :
       msgs_pc' = IF inserted THEN "history" ELSE "return"
  /\ UNCHANGED <<loopVars, block_update_, block_insertion_, timer_pc, pose_history_>>

\* msgsCallback, lines 110-111: pose_history_.push_back(current_pose).
PoseHistoryPush ==
  /\ msgs_pc = "history"
  /\ pose_history_' = pose_history_ + 1
  /\ msgs_pc' = "return"
  /\ UNCHANGED <<loopVars, block_update_, block_insertion_, timer_pc>>

\* msgsCallback, lines 47 and 114-126: the publication and the return.
MsgsCallbackReturn ==
  /\ msgs_pc = "return"
  /\ msgs_pc' = "idle"
  /\ UNCHANGED <<loopVars, block_update_, block_insertion_, timer_pc, pose_history_>>

\* timerCallback, lines 135-136: called; it returns when block_update_ is set.
TimerCallbackCheck(t) ==
  /\ timer_pc[t] = "idle"
  /\ timer_pc' = [timer_pc EXCEPT ![t] = IF block_update_ THEN "return" ELSE "set"]
  /\ UNCHANGED <<loopVars, block_update_, block_insertion_, msgs_pc, pose_history_>>

\* timerCallback, line 139: block_update_ = true.
TimerCallbackBlockUpdate(t) ==
  /\ timer_pc[t] = "set"
  /\ block_update_' = TRUE
  /\ timer_pc' = [timer_pc EXCEPT ![t] = "update"]
  /\ UNCHANGED <<loopVars, block_insertion_, msgs_pc, pose_history_>>

\* timerCallback, line 142: graphUpdater() tells whether vertices are new.
GraphUpdater(t) ==
  /\ timer_pc[t] = "update"
  /\ \E updated \in BOOLEAN :
       timer_pc' = [timer_pc EXCEPT ![t] = IF updated THEN "block" ELSE "save"]
  /\ UNCHANGED <<loopVars, block_update_, block_insertion_, msgs_pc, pose_history_>>

\* timerCallback, line 144: block_insertion_ = true.
TimerCallbackBlockInsertion(t) ==
  /\ timer_pc[t] = "block"
  /\ block_insertion_' = TRUE
  /\ timer_pc' = [timer_pc EXCEPT ![t] = "optimize"]
  /\ UNCHANGED <<loopVars, block_update_, msgs_pc, pose_history_>>

\* timerCallback, lines 145-148: initializeOptimization, and optimize starts.
OptimizeBegin(t) ==
  /\ timer_pc[t] = "optimize"
  /\ timer_pc' = [timer_pc EXCEPT ![t] = "optimizing"]
  /\ UNCHANGED <<loopVars, block_update_, block_insertion_, msgs_pc, pose_history_>>

\* timerCallback, line 148: graph_optimizer_.optimize returns.
OptimizeEnd(t) ==
  /\ timer_pc[t] = "optimizing"
  /\ timer_pc' = [timer_pc EXCEPT ![t] = "unblock"]
  /\ UNCHANGED <<loopVars, block_update_, block_insertion_, msgs_pc, pose_history_>>

\* timerCallback, line 149: block_insertion_ = false.
TimerCallbackUnblockInsertion(t) ==
  /\ timer_pc[t] = "unblock"
  /\ block_insertion_' = FALSE
  /\ timer_pc' = [timer_pc EXCEPT ![t] = "save"]
  /\ UNCHANGED <<loopVars, block_update_, msgs_pc, pose_history_>>

\* timerCallback, lines 154-155: saveGraph, when asked for.
SaveGraph(t) ==
  /\ timer_pc[t] = "save"
  /\ timer_pc' = [timer_pc EXCEPT ![t] = "reset"]
  /\ UNCHANGED <<loopVars, block_update_, block_insertion_, msgs_pc, pose_history_>>

\* timerCallback, line 157: block_update_ = false.
TimerCallbackUnblockUpdate(t) ==
  /\ timer_pc[t] = "reset"
  /\ block_update_' = FALSE
  /\ timer_pc' = [timer_pc EXCEPT ![t] = "return"]
  /\ UNCHANGED <<loopVars, block_insertion_, msgs_pc, pose_history_>>

\* timerCallback, lines 136 and 158: the return.
TimerCallbackReturn(t) ==
  /\ timer_pc[t] = "return"
  /\ timer_pc' = [timer_pc EXCEPT ![t] = "idle"]
  /\ UNCHANGED <<loopVars, block_update_, block_insertion_, msgs_pc, pose_history_>>

\* msgsCallback and the invocations of timerCallback, interleaved line by
\* line: the two flags are plain members, read and written without a lock.
BaseNext ==
  \/ MsgsCallbackCheck
  \/ MsgsCallbackDisplacement
  \/ VertexInsertionBegin
  \/ VertexInsertionEnd
  \/ PoseHistoryPush
  \/ MsgsCallbackReturn
  \/ \E t \in 1..MaxTimerEvents : TimerCallbackCheck(t)
  \/ \E t \in 1..MaxTimerEvents : TimerCallbackBlockUpdate(t)
  \/ \E t \in 1..MaxTimerEvents : GraphUpdater(t)
  \/ \E t \in 1..MaxTimerEvents : TimerCallbackBlockInsertion(t)
  \/ \E t \in 1..MaxTimerEvents : OptimizeBegin(t)
  \/ \E t \in 1..MaxTimerEvents : OptimizeEnd(t)
  \/ \E t \in 1..MaxTimerEvents : TimerCallbackUnblockInsertion(t)
  \/ \E t \in 1..MaxTimerEvents : SaveGraph(t)
  \/ \E t \in 1..MaxTimerEvents : TimerCallbackUnblockUpdate(t)
  \/ \E t \in 1..MaxTimerEvents : TimerCallbackReturn(t)

SpecBase == Init /\ [][BaseNext]_vars

\* ------------------------------------------------- run() from its start
\* run() called and nothing done yet: the directory of the store is not
\* there (line 25 removes it), the producer may push already.
StartupInit ==
  /\ cluster_queue_ = <<>>
  /\ mutex_cluster_queue_ = "free"
  /\ producer_pc = "idle"
  /\ driver_pc = "startup"
  /\ pushed = <<>>
  /\ popped = <<>>
  /\ c_cluster_ = EmptyCluster
  /\ hash_ = [initialized |-> FALSE, basis |-> -1]
  /\ hash_table_ = <<>>
  /\ store = <<>>
  /\ lc_found_ = <<>>
  /\ graph_vertices = <<>>
  /\ graph_edges = <<>>
  /\ graph_updates = 0
  /\ candidates = <<>>
  /\ cand_idx = 1
  /\ lastCall = NoCall
  /\ gate = NoGate
  /\ getCandidatesCall = NoQuery
  /\ readBack = NoRead
  /\ execution_dir_created = FALSE
  /\ InitializeStereoSlam

\* run(), lines 24-56: create_directory(execution_dir_) returns true or
\* false; false is logged (line 30) and run() goes on to its loop.
RunStartup ==
  /\ driver_pc = "startup"
  /\ \E created \in BOOLEAN : execution_dir_created' = created
  /\ driver_pc' = "check"
  /\ UNCHANGED <<queueVars, producerVars, ingestVars, graphVars, searchVars, gate,
                 getCandidatesCall, readBack, baseVars>>

SpecStartup == StartupInit /\ [][RunStartup \/ Next]_vars

\* ------------------------------- one verification, all its outcomes
\* The runs of n clusters the producer may push.
RECURSIVE ProducerRuns(_)
ProducerRuns(n) ==
  IF n = 0 THEN {<<>>}
  ELSE UNION {{Append(run, c) : c \in ProducedClusters(run)} : run \in ProducerRuns(n - 1)}

\* The driver inside searchByProximity, about to verify its candidate: every
\* cluster of a run is pushed and ingested, the last one is the current
\* cluster, and no loop has been closed so far.
VerifyInit ==
  \E run \in ProducerRuns(MaxClusters) :
  \E id \in {v \in 0..(MaxClusters - 1) :
               ~(v > MaxClusters - 1 - LC_DISCARD_WINDOW
                 /\ v < MaxClusters - 1 + LC_DISCARD_WINDOW)} :
    /\ cluster_queue_ = <<>>
    /\ mutex_cluster_queue_ = "free"
    /\ producer_pc = "idle"
    /\ driver_pc = "proximity_loop"
    /\ pushed = run
    /\ popped = run
    /\ c_cluster_ = run[Len(run)]
    /\ hash_ = [initialized |-> TRUE, basis |-> 0]
    /\ hash_table_ = [i \in 1..Len(run) |-> <<run[i].id, [basis |-> 0, of |-> run[i].id]>>]
    /\ store = [v \in 0..(Len(run) - 1) |-> WriteCluster(run[v + 1])]
    /\ lc_found_ = <<>>
    /\ graph_vertices = [v \in 0..(Len(run) - 1) |-> run[v + 1].frame_id]
    /\ graph_edges = <<>>
    /\ graph_updates = 0
    /\ candidates = <<id>>
    /\ cand_idx = 1
    /\ lastCall = NoCall
    /\ gate = NoGate
    /\ getCandidatesCall = NoQuery
    /\ readBack = NoRead
    /\ execution_dir_created = TRUE
    /\ InitializeStereoSlam

\* The turn of the loop of searchByProximity for that candidate, with every
\* outcome of matching and RANSAC of InlierCounts.
CloseLoopWithClusterCall ==
  /\ driver_pc = "proximity_loop"
  /\ VerifyCandidate("proximity", candidates[cand_idx], InlierCounts, {0, 1})
  /\ driver_pc' = "hash"
  /\ candidates' = <<>>
  /\ cand_idx' = 1
  /\ UNCHANGED <<queueVars, producerVars, ingestVars, gate, probeVars>>

SpecVerify == VerifyInit /\ [][CloseLoopWithClusterCall]_vars

\* ----------------------------------------- the stage-1 gate alone
\* closeLoopWithCluster entered with size_c rows in the current cluster,
\* size_n >= 1 rows in the candidate (a candidate without rows is skipped by
\* the searches) and a number of stage-1 matches.
\* Row counts the gate is applied to.
GateRows == (0..MaxGateRows) \cup {TieRows}

GateInit ==
  /\ gate \in {[NoGate EXCEPT !.size_c = c, !.size_n = n, !.matches = m] :
                 c \in GateRows, n \in GateRows \ {0}, m \in 0..TieRows}
  /\ gate.matches \in RatioMatchingSizes(gate.size_c, gate.size_n)
  /\ cluster_queue_ = <<>>
  /\ mutex_cluster_queue_ = "free"
  /\ producer_pc = "idle"
  /\ driver_pc = "proximity_loop"
  /\ pushed = <<>>
  /\ popped = <<>>
  /\ c_cluster_ = EmptyCluster
  /\ hash_ = [initialized |-> FALSE, basis |-> -1]
  /\ hash_table_ = <<>>
  /\ store = <<>>
  /\ lc_found_ = <<>>
  /\ graph_vertices = <<>>
  /\ graph_edges = <<>>
  /\ graph_updates = 0
  /\ candidates = <<>>
  /\ cand_idx = 1
  /\ lastCall = NoCall
  /\ getCandidatesCall = NoQuery
  /\ readBack = NoRead
  /\ execution_dir_created = TRUE
  /\ InitializeStereoSlam

\* Lines 210-215: m_percentage and the test that guards stage 2.
MatchPercentageGateStep ==
  /\ ~gate.applied
  /\ \E m_percentage \in MatchPercentages(gate.matches, gate.size_c, gate.size_n) :
       gate' = [gate EXCEPT !.applied = TRUE, !.m_percentage = m_percentage,
                            !.proceeds = PassesGate(m_percentage)]
  /\ UNCHANGED <<queueVars, producerVars, driver_pc, ingestVars, graphVars, searchVars,
                 probeVars>>

SpecGate == GateInit /\ [][MatchPercentageGateStep]_vars

\* --------------------------------------------- getCandidates alone
\* searchByHash about to call getCandidates for the cluster just ingested:
\* the table holds the clusters 0..n-1 in order, the current cluster is the
\* last of them, and the proximity search of the tick has closed at most one
\* loop with it.  hash_.match is called for the entries outside the window.
CandidatesInit ==
  \E n \in 1..MaxTable :
  \E similarity \in [1..n -> 0..MaxSimilarity] :
  \E found \in {<<>>} \cup {<<<<n - 1, x>>>> : x \in {v \in 0..(n - 1) :
                                                      ~InDiscardWindow(v, n - 1)}} :
    /\ \A i \in 1..n : InDiscardWindow(i - 1, n - 1) => similarity[i] = 0
    /\ cluster_queue_ = <<>>
    /\ mutex_cluster_queue_ = "free"
    /\ producer_pc = "idle"
    /\ driver_pc = "hash"
    /\ pushed = <<>>
    /\ popped = <<>>
    /\ c_cluster_ = Cluster(n - 1, n - 1, RowsFull, RowsFull, RowsFull)
    /\ hash_ = [initialized |-> TRUE, basis |-> 0]
    /\ hash_table_ = [i \in 1..n |-> <<i - 1, [basis |-> 0, of |-> i - 1]>>]
    /\ store = <<>>
    /\ lc_found_ = found
    /\ graph_vertices = <<>>
    /\ graph_edges = <<>>
    /\ graph_updates = 0
    /\ candidates = <<>>
    /\ cand_idx = 1
    /\ lastCall = NoCall
    /\ gate = NoGate
    /\ getCandidatesCall = [NoQuery EXCEPT !.similarity = similarity]
    /\ readBack = NoRead
    /\ execution_dir_created = TRUE
    /\ InitializeStereoSlam

\* searchByHash, line 153: getCandidates(c_cluster_.getId(), hash_matching).
GetCandidatesStep ==
  /\ driver_pc = "hash"
  /\ ~getCandidatesCall.asked
  /\ \E hash_matching \in GetCandidatesWith(hash_table_, lc_found_, c_cluster_.id,
                                             getCandidatesCall.similarity) :
       /\ getCandidatesCall' =
            [getCandidatesCall EXCEPT !.asked = TRUE,
                                      !.early = NotEnoughNeighbors(hash_table_),
                                      !.query_pos =
                                        IF NotEnoughNeighbors(hash_table_) THEN 0
                                        ELSE QueryPosition(c_cluster_.id),
                                      !.hash_matching = hash_matching]
       /\ candidates' = [k \in 1..Len(hash_matching) |-> hash_matching[k][1]]
       /\ driver_pc' = IF hash_matching = <<>> THEN "publish" ELSE "hash_loop"
  /\ UNCHANGED <<queueVars, producerVars, ingestVars, graphVars, cand_idx, lastCall,
                 gate, readBack, execution_dir_created, baseVars>>

SpecCandidates == CandidatesInit /\ [][GetCandidatesStep]_vars

\* searchByHash about to call getCandidates for the cluster just ingested,
\* the producer having given its clusters ids that are unique and increase,
\* with or without gaps: the table holds them in order, the current cluster
\* is the last of them.
IncreasingIds(n) ==
  {ids \in [1..n -> 0..MaxQueryId] : \A i \in 1..(n - 1) : ids[i] < ids[i + 1]}

QueryInit ==
  \E n \in 1..MaxQueryTable :
  \E ids \in IncreasingIds(n) :
    /\ cluster_queue_ = <<>>
    /\ mutex_cluster_queue_ = "free"
    /\ producer_pc = "idle"
    /\ driver_pc = "hash"
    /\ pushed = <<>>
    /\ popped = <<>>
    /\ c_cluster_ = Cluster(ids[n], ids[n], RowsFull, RowsFull, RowsFull)
    /\ hash_ = [initialized |-> TRUE, basis |-> ids[1]]
    /\ hash_table_ = [i \in 1..n |-> <<ids[i], [basis |-> ids[1], of |-> ids[i]]>>]
    /\ store = <<>>
    /\ lc_found_ = <<>>
    /\ graph_vertices = <<>>
    /\ graph_edges = <<>>
    /\ graph_updates = 0
    /\ candidates = <<>>
    /\ cand_idx = 1
    /\ lastCall = NoCall
    /\ gate = NoGate
    /\ getCandidatesCall = [NoQuery EXCEPT !.similarity = [i \in 1..n |-> 0]]
    /\ readBack = NoRead
    /\ execution_dir_created = TRUE
    /\ InitializeStereoSlam

SpecQuery == QueryInit /\ [][GetCandidatesStep]_vars

\* ------------------------------------------- the store round trip
\* processNewCluster about to write the file of the current cluster, whose
\* keypoints, descriptor rows and points are counted apart; the store is
\* empty or holds the file of another cluster.
StoreInit ==
  \E id \in 0..1 :
  \E frame_id \in 0..id :
  \E kp \in 0..MaxStoreRows, ldb \in 0..MaxStoreRows, points \in 0..MaxStoreRows :
  \E files \in {<<>>, StoreWrite(<<>>, 1 - id,
                                  WriteCluster(Cluster(1 - id, 0, RowsFull, RowsFull,
                                                       RowsFull)))} :
    /\ cluster_queue_ = <<>>
    /\ mutex_cluster_queue_ = "free"
    /\ producer_pc = "idle"
    /\ driver_pc = "process_locked"
    /\ pushed = <<>>
    /\ popped = <<>>
    /\ c_cluster_ = Cluster(id, frame_id, kp, ldb, points)
    /\ hash_ = [initialized |-> TRUE, basis |-> 0]
    /\ hash_table_ = <<>>
    /\ store = files
    /\ lc_found_ = <<>>
    /\ graph_vertices = <<>>
    /\ graph_edges = <<>>
    /\ graph_updates = 0
    /\ candidates = <<>>
    /\ cand_idx = 1
    /\ lastCall = NoCall
    /\ gate = NoGate
    /\ getCandidatesCall = NoQuery
    /\ readBack = NoRead
    /\ execution_dir_created = TRUE
    /\ InitializeStereoSlam

\* processNewCluster, lines 123-129: the file of the current cluster.
StoreWriteStep ==
  /\ ~readBack.written
  /\ store' = StoreWrite(store, c_cluster_.id, WriteCluster(c_cluster_))
  /\ readBack' = [readBack EXCEPT !.written = TRUE]
  /\ UNCHANGED <<queueVars, producerVars, driver_pc, c_cluster_, hash_, hash_table_,
                 popped, graphVars, searchVars, gate, getCandidatesCall,
                 execution_dir_created, baseVars>>

\* readCluster(id) of the cluster just written.
StoreReadStep ==
  /\ readBack.written
  /\ ~readBack.read
  /\ readBack' = [readBack EXCEPT !.read = TRUE,
                                  !.cluster = ReadCluster(c_cluster_.id)]
  /\ UNCHANGED <<queueVars, producerVars, driver_pc, ingestVars, graphVars,
                 searchVars, gate, getCandidatesCall, execution_dir_created,
                 baseVars>>

SpecStore == StoreInit /\ [][StoreWriteStep \/ StoreReadStep]_vars

\* ============================================================= claims

\* Number of inliers of a verification that belong to a pair of vertices.
PairVotes(inliers, pair) == Cardinality({i \in DOMAIN inliers : inliers[i] = pair})

\* The verification passed both inlier gates: stages 5 and 6 ran.
ReachedInsertion(call) ==
  call.called /\ call.ransac /\ Len(call.inliers) >= LC_MIN_INLIERS

\* C1: a candidate handed to closeLoopWithCluster is never a cluster already
\* recorded with the current cluster in lc_found_, in either order.
C1_RecordedPairNotVerifiedAgain ==
  lastCall.called => ~lastCall.was_recorded

\* C2: no two addEdge calls of a run join the same unordered pair of
\* vertices (looked at in the runs whose clusters all have descriptors, so
\* that no edge comes from an undefined match percentage).
C2_OneEdgePerPair ==
  (\A k \in DOMAIN pushed : pushed[k].ldb > 0) =>
    \A i, j \in DOMAIN graph_edges :
      i # j => {graph_edges[i].from, graph_edges[i].to}
                 # {graph_edges[j].from, graph_edges[j].to}

\* C3: the clusters dequeued so far are a prefix of the clusters pushed so
\* far, in the same order, and no cluster is dequeued twice.
C3_DequeuedIsPrefixOfPushed ==
  /\ Len(popped) <= Len(pushed)
  /\ \A i \in DOMAIN popped : popped[i] = pushed[i]
  /\ \A i, j \in DOMAIN popped : i # j => popped[i].id # popped[j].id

\* C3 witness: a cluster has been dequeued while two more were waiting.
C3_Witness ==
  Len(popped) >= 1 /\ Len(cluster_queue_) >= 2

\* C4: the producer's push and the driver's emptiness check, pop and depth
\* read are never inside their access to cluster_queue_ together, and a
\* thread inside its access holds mutex_cluster_queue_.
C4_QueueAccessExclusive ==
  LET producer_in == producer_pc = "push_locked"
      driver_in == driver_pc \in {"check_locked", "process_locked", "depth_locked"}
  IN /\ ~(producer_in /\ driver_in)
     /\ producer_in => mutex_cluster_queue_ = "producer"
     /\ driver_in => mutex_cluster_queue_ = "driver"

\* C4 witness: the producer is inside its push while the driver has found a
\* cluster and is about to take the mutex for the pop.
C4_Witness ==
  producer_pc = "push_locked" /\ driver_pc = "process"

\* C5: a call of closeLoopWithCluster that returns false leaves the edges,
\* lc_found_ and the number of Graph.update calls as they were, and a call
\* that reaches the edge insertion with a pair of >= 5 inliers returns true.
C5_FalseMeansNoMutation ==
  [][(lastCall'.called /\ lastCall' # lastCall) =>
       /\ ~lastCall'.ret =>
            /\ graph_edges' = graph_edges
            /\ lc_found_' = lc_found_
            /\ graph_updates' = graph_updates
       /\ (/\ ReachedInsertion(lastCall')
           /\ \E pair \in Range(lastCall'.inliers) :
                PairVotes(lastCall'.inliers, pair) >= 5)
          => lastCall'.ret]_vars

\* C5 witness: RANSAC ran, a pair holds >= 5 inliers, and the call returned
\* false for want of LC_MIN_INLIERS inliers.
C5_Witness ==
  /\ lastCall.called /\ lastCall.ransac /\ ~lastCall.ret
  /\ \E pair \in Range(lastCall.inliers) : PairVotes(lastCall.inliers, pair) >= 5

\* What a verification does for the pairs of (current vertex, candidate
\* vertex) among its RANSAC inliers: a pair with >= 5 inliers gets exactly one
\* addEdge(candidate vertex, current vertex) whose weight is its number of
\* inliers and exactly one record (current, candidate); a pair with < 5
\* inliers gets neither.
EdgePerSurvivingPair ==
    \A pair \in Range(lastCall.inliers) :
         LET votes == PairVotes(lastCall.inliers, pair)
             edges == {k \in DOMAIN graph_edges :
                         graph_edges[k].to = pair[1] /\ graph_edges[k].from = pair[2]}
             records == {k \in DOMAIN lc_found_ : lc_found_[k] = pair}
         IN IF votes >= 5
            THEN /\ Cardinality(edges) = 1
                 /\ \A k \in edges : graph_edges[k].weight = votes
                 /\ Cardinality(records) = 1
            ELSE edges = {} /\ records = {}

\* C6 as stated: every verification that ran RANSAC adds one edge and one
\* record for each pair with >= 5 inliers, and none for a pair with fewer.
C6_EveryVerification ==
  (lastCall.called /\ lastCall.ransac) => EdgePerSurvivingPair

\* C6 amended: every verification whose RANSAC inliers number at least
\* LC_MIN_INLIERS adds one edge (candidate vertex, current vertex, weight =
\* inliers of the pair) and one record for each pair with >= 5 inliers, and
\* none for a pair with fewer; and it adds nothing else.
C6_EdgePerSurvivingPair ==
  ReachedInsertion(lastCall) =>
    /\ graph_edges = lastCall.edges
    /\ lc_found_ = lastCall.records
    /\ EdgePerSurvivingPair
    /\ \A k \in DOMAIN graph_edges :
         <<graph_edges[k].to, graph_edges[k].from>> \in Range(lastCall.inliers)
    /\ Range(lc_found_) \subseteq Range(lastCall.inliers)

\* C6 witness: an accepted verification with a pair of exactly 5 inliers and
\* a pair of fewer.
C6_Witness ==
  /\ ReachedInsertion(lastCall)
  /\ \E p, q \in Range(lastCall.inliers) :
       /\ PairVotes(lastCall.inliers, p) = 5
       /\ PairVotes(lastCall.inliers, q) < 5

\* C7 as stated: with c, n >= 1 the verification proceeds to stage 2 exactly
\* when the exact ratio 100*m/min(c,n) is above 35.
C7_ExactRatioGate ==
  (gate.applied /\ gate.size_c >= 1) =>
    (gate.proceeds <=>
       100 * gate.matches > MatchPercentageGate * Min(gate.size_c, gate.size_n))

\* C7 amended: with c, n >= 1 the verification proceeds to stage 2 exactly
\* when 100*m/min(c,n), rounded to the nearest integer, is above 35, that
\* is when the exact ratio is at least 35.5.
C7_RoundedRatioGate ==
  (gate.applied /\ gate.size_c >= 1) =>
    (gate.proceeds <=>
       2 * 100 * gate.matches
         >= (2 * MatchPercentageGate + 1) * Min(gate.size_c, gate.size_n))

\* C7 witness: an exact ratio above 35 (and below 35.5) that is abandoned.
C7_Witness ==
  /\ gate.applied /\ gate.size_c >= 1 /\ ~gate.proceeds
  /\ 100 * gate.matches > MatchPercentageGate * Min(gate.size_c, gate.size_n)

\* C8: for row counts c, n >= 1 the match percentage is at most 100.
C8_PercentageAtMost100 ==
  (gate.applied /\ gate.size_c >= 1) => gate.m_percentage <= 100

\* C9: a turn of a search whose current cluster or candidate has no
\* descriptor rows divides by no zero, does not reach solvePnPRansac and
\* adds no edge and no record.
C9_EmptyClusterIsHarmless ==
  (lastCall.search # "none" /\ (lastCall.cur_rows = 0 \/ lastCall.cand_rows = 0)) =>
    /\ ~lastCall.div_by_zero
    /\ ~lastCall.ransac
    /\ lastCall.edges = <<>>
    /\ lastCall.records = <<>>

\* C10: every candidate X that getCandidates returns for cluster C differs
\* from C and lies outside the window: X <= C - W or X >= C + W.
C10_HashCandidatesOutsideWindow ==
  driver_pc = "hash_loop" =>
    \A k \in DOMAIN candidates :
      /\ candidates[k] # c_cluster_.id
      /\ \/ candidates[k] <= c_cluster_.id - LC_DISCARD_WINDOW
         \/ candidates[k] >= c_cluster_.id + LC_DISCARD_WINDOW

\* C10 witness: the hash search returned the cluster at the edge of the
\* window, C - W.
C10_Witness ==
  /\ driver_pc = "hash_loop"
  /\ \E k \in DOMAIN candidates : candidates[k] = c_cluster_.id - LC_DISCARD_WINDOW

\* C11 as stated: getCandidates returns early, with no candidate, exactly
\* when the hash table holds fewer than W entries.
C11_EarlyReturnBelowWindow ==
  getCandidatesCall.asked =>
    /\ (Len(hash_table_) < LC_DISCARD_WINDOW => getCandidatesCall.hash_matching = <<>>)
    /\ (getCandidatesCall.early <=> Len(hash_table_) < LC_DISCARD_WINDOW)

\* C11 amended: getCandidates returns early, with no candidate, exactly when
\* the hash table holds at most W entries; with more than W entries it goes
\* on to filter and rank.
C11_EarlyReturnUpToWindow ==
  getCandidatesCall.asked =>
    /\ (getCandidatesCall.early => getCandidatesCall.hash_matching = <<>>)
    /\ (getCandidatesCall.early <=> Len(hash_table_) <= LC_DISCARD_WINDOW)

\* C11 witness: a call on a table of exactly W entries returns early.
C11_Witness ==
  /\ getCandidatesCall.asked /\ getCandidatesCall.early
  /\ Len(hash_table_) = LC_DISCARD_WINDOW

\* The stored clusters getCandidates may return for the current cluster:
\* outside the window, not the cluster itself, not closed with it already.
EligiblePositions ==
  {i \in DOMAIN hash_table_ :
     /\ hash_table_[i][1] # c_cluster_.id
     /\ \/ hash_table_[i][1] <= c_cluster_.id - LC_DISCARD_WINDOW
        \/ hash_table_[i][1] >= c_cluster_.id + LC_DISCARD_WINDOW
     /\ ~\E k \in DOMAIN lc_found_ :
           \/ lc_found_[k] = <<c_cluster_.id, hash_table_[i][1]>>
           \/ lc_found_[k] = <<hash_table_[i][1], c_cluster_.id>>}

\* C12: getCandidates returns at most 5 candidates, each an eligible stored
\* cluster with its similarity, no cluster twice, in non-increasing order of
\* similarity; no eligible cluster left out is more similar than a returned
\* one; and with 5 or fewer eligible clusters all of them are returned.
C12_TopFiveBySimilarity ==
  getCandidatesCall.asked =>
    LET hm == getCandidatesCall.hash_matching
        similarity == getCandidatesCall.similarity
        returned == {i \in EligiblePositions :
                       \E k \in DOMAIN hm : hm[k][1] = hash_table_[i][1]}
    IN /\ Len(hm) <= 5
       /\ \A k \in DOMAIN hm :
            \E i \in EligiblePositions :
              hm[k] = <<hash_table_[i][1], similarity[i]>>
       /\ \A k, l \in DOMAIN hm : k # l => hm[k][1] # hm[l][1]
       /\ \A k \in 1..(Len(hm) - 1) : hm[k][2] >= hm[k + 1][2]
       /\ \A e \in EligiblePositions \ returned :
            \A r \in returned : similarity[e] <= similarity[r]
       /\ Cardinality(EligiblePositions) <= 5 => returned = EligiblePositions

\* C12 witness: six clusters are eligible, five are returned, and the one
\* left out is less similar than the last returned one.
C12_Witness ==
  /\ getCandidatesCall.asked
  /\ Cardinality(EligiblePositions) = 6
  /\ Len(getCandidatesCall.hash_matching) = 5
  /\ \E e \in EligiblePositions :
       /\ \A k \in 1..5 : getCandidatesCall.hash_matching[k][1] # hash_table_[e][1]
       /\ getCandidatesCall.similarity[e] < getCandidatesCall.hash_matching[5][2]

\* C13: solvePnPRansac runs only when the pools have >= LC_MIN_INLIERS
\* matches, and a verification whose matches or whose RANSAC inliers are
\* fewer than LC_MIN_INLIERS returns false and adds no edge.
C13_InlierGates ==
  lastCall.called =>
    /\ lastCall.ransac =>
         (lastCall.gate_passed /\ lastCall.matches_2 >= LC_MIN_INLIERS)
    /\ (\/ lastCall.gate_passed /\ lastCall.matches_2 < LC_MIN_INLIERS
        \/ lastCall.ransac /\ Len(lastCall.inliers) < LC_MIN_INLIERS)
       => /\ ~lastCall.ret
          /\ lastCall.edges = <<>>
          /\ graph_edges = <<>>
          /\ lc_found_ = <<>>

\* C13 witness: the stage-1 gate is passed, RANSAC runs on enough matches and
\* finds some inliers, fewer than LC_MIN_INLIERS.
C13_Witness ==
  /\ lastCall.called /\ lastCall.gate_passed /\ lastCall.ransac
  /\ lastCall.matches_2 >= LC_MIN_INLIERS
  /\ Len(lastCall.inliers) > 0
  /\ Len(lastCall.inliers) < LC_MIN_INLIERS

\* C14: a call of closeLoopWithCluster that returns true calls Graph.update
\* exactly once, after all its addEdge calls; a call that returns false
\* calls neither.
C14_UpdateOnceAfterEdges ==
  lastCall.called =>
    /\ graph_updates = lastCall.updates
    /\ lastCall.ret =>
         /\ lastCall.updates = 1
         /\ Len(lastCall.calls) = Len(lastCall.edges) + 1
         /\ lastCall.calls[Len(lastCall.calls)] = "update"
         /\ \A k \in 1..(Len(lastCall.calls) - 1) : lastCall.calls[k] = "addEdge"
    /\ ~lastCall.ret => (lastCall.updates = 0 /\ lastCall.calls = <<>>)

\* C14 witness: a call that returned true after two addEdge calls.
C14_Witness ==
  /\ lastCall.called /\ lastCall.ret
  /\ Len(lastCall.edges) = 2
  /\ graph_updates = 1

\* A step of a search loop: one candidate is read and, unless skipped, verified.
VerificationStep ==
  /\ driver_pc \in {"proximity_loop", "hash_loop"}
  /\ (cand_idx' # cand_idx \/ driver_pc' # driver_pc)

\* C15 as stated: a verification that returns success appends exactly one
\* record to lc_found_ (looked at for current clusters with descriptors).
C15_OneRecordPerSuccess ==
  (lastCall.called /\ lastCall.ret /\ lastCall.cur_rows > 0) =>
    Len(lastCall.records) = 1

\* C15 amended: lc_found_ is append-only (every step keeps the records it
\* holds, in place), only a verification appends to it, and a verification
\* that returns success appends one record per pair with >= 5 inliers, which
\* may be none or several.
C15_AppendOnlyRecordPerPair ==
  [][/\ Len(lc_found_') >= Len(lc_found_)
     /\ SubSeq(lc_found_', 1, Len(lc_found_)) = lc_found_
     /\ ~VerificationStep => lc_found_' = lc_found_
     /\ (VerificationStep /\ lastCall'.called) =>
          /\ lc_found_' = lc_found_ \o lastCall'.records
          /\ lastCall'.ret =>
               Len(lastCall'.records) =
                 Cardinality({pair \in Range(lastCall'.inliers) :
                                PairVotes(lastCall'.inliers, pair) >= 5})]_vars

\* C15 witness: a successful verification has appended two records to a
\* list that held one.
C15_Witness ==
  /\ lastCall.called /\ lastCall.ret
  /\ Len(lastCall.records) = 2
  /\ Len(lc_found_) >= 3

\* C16: the hash basis is initialised once, by the step that processes the
\* first dequeued cluster, and is never changed afterwards; every hash of
\* the table was computed with that basis.
C16_HashInitialisedOnce ==
  [][/\ hash_.initialized => hash_' = hash_
     /\ hash_' # hash_ => (popped = <<>> /\ Len(popped') = 1 /\ hash_'.initialized)
     /\ (popped' # <<>>) => hash_'.initialized
     /\ \A i \in DOMAIN hash_table_' :
          hash_table_'[i][2].basis = hash_'.basis]_vars

\* C16 witness: three clusters have been hashed, all with the basis set
\* while the first was processed.
C16_Witness ==
  /\ hash_.initialized
  /\ Len(hash_table_) = 3
  /\ \A i \in DOMAIN hash_table_ : hash_table_[i][2].basis = popped[1].id

\* C17: the hash table holds one entry per processed cluster, the i-th with
\* the id of the i-th dequeued cluster; a step never removes, moves or
\* rewrites an entry, and only processNewCluster adds one, at the end.
C17_HashTableFollowsDequeues ==
  [][/\ Len(hash_table_') = Len(popped')
     /\ \A i \in DOMAIN hash_table_' : hash_table_'[i][1] = popped'[i].id
     /\ Len(hash_table_') >= Len(hash_table_)
     /\ SubSeq(hash_table_', 1, Len(hash_table_)) = hash_table_
     /\ hash_table_' # hash_table_ =>
          /\ driver_pc = "process_locked"
          /\ Len(hash_table_') = Len(hash_table_) + 1
          /\ Len(popped') = Len(popped) + 1]_vars

\* C17 witness: every cluster of the run has been processed and the table
\* lists their ids in the order they were dequeued.
C17_Witness ==
  /\ Len(popped) = MaxClusters
  /\ hash_table_ # <<>>
  /\ \A i \in DOMAIN popped : hash_table_[i][1] = popped[i].id

\* The order of a tick of the driver: check, then (with a cluster queued)
\* dequeue and ingest, proximity search, hash search, then the publications.
TickOrder ==
  {<<"check", "check_locked">>, <<"check_locked", "process">>,
   <<"check_locked", "publish">>, <<"process", "process_locked">>,
   <<"process_locked", "proximity">>, <<"proximity", "proximity_loop">>,
   <<"proximity", "hash">>, <<"proximity_loop", "hash">>,
   <<"hash", "hash_loop">>, <<"hash", "publish">>, <<"hash_loop", "publish">>,
   <<"publish", "check">>, <<"publish", "depth_locked">>,
   <<"depth_locked", "check">>}

\* The driver is inside one of the two candidate searches.
Searching(pc) == pc \in {"proximity", "proximity_loop", "hash", "hash_loop"}

\* C18: the driver moves through a tick in the order check, dequeue and
\* ingest, proximity search, hash search, publish; a cluster is dequeued only
\* by the ingest step, one per tick, taken when the check found the queue
\* non-empty; the searches run for a cluster that is hashed and stored; and
\* a check that finds the queue empty leads straight to the publications.
C18_DriverOrder ==
  [][/\ driver_pc' # driver_pc => <<driver_pc, driver_pc'>> \in TickOrder
     /\ (driver_pc = "check_locked" /\ driver_pc' # driver_pc) =>
          (driver_pc' = "process" <=> cluster_queue_ # <<>>)
     /\ popped' # popped =>
          /\ driver_pc = "process_locked" /\ driver_pc' = "proximity"
          /\ cluster_queue_ # <<>>
          /\ popped' = Append(popped, Head(cluster_queue_))
          /\ cluster_queue_' = Tail(cluster_queue_)
     /\ (driver_pc = "process_locked" /\ driver_pc' # driver_pc) =>
          Len(popped') = Len(popped) + 1
     /\ Searching(driver_pc') =>
          /\ popped' # <<>>
          /\ c_cluster_' = popped'[Len(popped')]
          /\ hash_table_' # <<>>
          /\ hash_table_'[Len(hash_table_')][1] = c_cluster_'.id
          /\ c_cluster_'.id \in DOMAIN store'
     /\ ~Searching(driver_pc) =>
          (lc_found_' = lc_found_ /\ graph_edges' = graph_edges
             /\ graph_updates' = graph_updates)
     /\ driver_pc # "process_locked" =>
          (c_cluster_' = c_cluster_ /\ hash_table_' = hash_table_ /\ store' = store)]_vars

\* C18 witness: the hash search of a cluster runs while the next cluster
\* waits in the queue.
C18_Witness ==
  /\ driver_pc = "hash_loop"
  /\ cluster_queue_ # <<>>
  /\ c_cluster_ = popped[Len(popped)]

\* The cluster of the store has descriptors: its file exists and holds rows.
StoredWithDescriptors(v) == v \in DOMAIN store /\ store[v].desc > 0

\* C19: a candidate that is missing from the store, or stored without
\* descriptors, is read as a cluster of zero rows and skipped by the search:
\* closeLoopWithCluster is not called, nothing changes in the graph or in
\* lc_found_, and the loop goes on to the next candidate; and the pools of a
\* verification leave out the candidate neighbours and same-frame clusters
\* that are missing or without descriptors, and only those.
C19_MissingClusterSkipped ==
  [][VerificationStep =>
       LET id == candidates[cand_idx]
           call == lastCall'
       IN /\ call.cand = id
          /\ call.cand_rows = (IF id \in DOMAIN store THEN store[id].desc ELSE 0)
          /\ ~StoredWithDescriptors(id) =>
               /\ ~call.called
               /\ lc_found_' = lc_found_
               /\ graph_edges' = graph_edges
               /\ graph_updates' = graph_updates
               /\ IF cand_idx < Len(candidates)
                  THEN /\ driver_pc' = driver_pc
                       /\ cand_idx' = cand_idx + 1
                       /\ candidates' = candidates
                  ELSE driver_pc' # driver_pc
          /\ StoredWithDescriptors(id) => call.called
          /\ (call.called /\ call.gate_passed) =>
               /\ call.cpool = <<id>> \o SelectSeq(call.neighbors, StoredWithDescriptors)
               /\ call.fpool =
                    <<c_cluster_.id>>
                    \o SelectSeq(call.frame_clusters,
                                 LAMBDA v : v # c_cluster_.id /\ StoredWithDescriptors(v))]_vars

\* C19 witness: searchByProximity has skipped a candidate that has no file
\* in the store and has gone on to its second candidate.
C19_Witness ==
  /\ driver_pc = "proximity_loop"
  /\ cand_idx = 2
  /\ lastCall.search = "proximity"
  /\ lastCall.cand \notin DOMAIN store
  /\ ~lastCall.called

\* C20: readCluster on the id of a cluster written by processNewCluster
\* gives a cluster with that id, the same frame_id, and as many keypoints,
\* descriptor rows and world points as the cluster written.
C20_StoreRoundTrip ==
  readBack.read =>
    /\ readBack.cluster.id = c_cluster_.id
    /\ readBack.cluster.frame_id = c_cluster_.frame_id
    /\ readBack.cluster.kp = c_cluster_.kp
    /\ readBack.cluster.ldb = c_cluster_.ldb
    /\ readBack.cluster.points = c_cluster_.points

\* C20 witness: a cluster whose three counts differ has been written next
\* to the file of another cluster and read back.
C20_Witness ==
  /\ readBack.read
  /\ Cardinality(DOMAIN store) = 2
  /\ c_cluster_.ldb > 0
  /\ c_cluster_.kp # c_cluster_.ldb
  /\ c_cluster_.ldb # c_cluster_.points
  /\ c_cluster_.kp # c_cluster_.points

\* ------------------------------------------------------------------ C21
\* C21 as stated: once create_directory has failed, run() never gets to
\* its loop: nothing is dequeued, hashed or written.
C21_FailedStartupIsFatal ==
  (driver_pc # "startup" /\ ~execution_dir_created)
    => (popped = <<>> /\ hash_table_ = <<>> /\ DOMAIN store = {})

\* ------------------------------------------------------------------ C22
\* C22: while the driver keeps running, the n-th cluster pushed is in the
\* end the n-th cluster dequeued and the n-th entry of the hash table; and
\* the driver always comes back to the top of its loop: no tick waits for
\* the queue to fill, and no tick goes on for ever.
C22_PushedEventuallyIngested ==
  /\ \A n \in 1..MaxClusters :
       (Len(pushed) >= n)
         ~> (/\ Len(popped) >= n
             /\ popped[n] = pushed[n]
             /\ Len(hash_table_) >= n
             /\ hash_table_[n][1] = pushed[n].id)
  /\ []<>(driver_pc = "check")

\* Every cluster of a full run has been dequeued and the driver is back at
\* the top of its loop, the queue empty.
C22_Witness ==
  /\ Len(pushed) = MaxClusters
  /\ popped = pushed
  /\ driver_pc = "check"
  /\ producer_pc = "idle"

\* ------------------------------------------------------------------ C23
\* C23 as stated: in the tick of a current cluster with descriptors, no
\* candidate that failed verification is verified again.
C23_NoRetryInTick ==
  [][(VerificationStep /\ lastCall'.called /\ lastCall'.cur_rows > 0)
       => \A f \in lastCall.failed : f[2] # lastCall'.cand]_vars

\* C23, amended: within one search of a tick (the proximity search or the
\* hash search) no candidate is verified twice; a candidate that failed in
\* the proximity search may be verified again by the hash search.
C23_NoRetryInSearch ==
  [][(VerificationStep /\ lastCall'.called)
       => <<lastCall'.search, lastCall'.cand>> \notin lastCall.failed]_vars

\* The hash search has verified, and seen fail, a candidate that had failed
\* in the proximity search of the same tick.
C23_Witness ==
  /\ lastCall.called
  /\ lastCall.search = "hash"
  /\ lastCall.cur_rows > 0
  /\ ~lastCall.ret
  /\ <<"proximity", lastCall.cand>> \in lastCall.failed
  /\ <<"hash", lastCall.cand>> \in lastCall.failed

\* ------------------------------------------------------------------ C24
\* The cluster of a pool that row k (from 1) of the concatenated
\* descriptors came from, the pool given by its ids and their row counts.
OwnerOfRow(ids, rows, k) ==
  ids[CHOOSE i \in 1..Len(ids) :
        /\ SumSeq([j \in 1..(i - 1) |-> rows[j]]) < k
        /\ k <= SumSeq([j \in 1..i |-> rows[j]])]

\* Descriptor rows of the clusters of the candidate pool and of the current
\* pool of the last call: the current cluster as dequeued, the others as
\* the store holds them.
CandidatePoolRows ==
  [i \in 1..Len(lastCall.cpool) |-> ReadCluster(lastCall.cpool[i]).ldb]
CurrentPoolRows ==
  [i \in 1..Len(lastCall.fpool) |->
     IF i = 1 THEN c_cluster_.ldb ELSE ReadCluster(lastCall.fpool[i]).ldb]

\* Keypoints, descriptor rows and world points of the cluster agree.
SizesAgree(cluster) == cluster.kp = cluster.ldb /\ cluster.ldb = cluster.points

\* C24: when the clusters of both pools have as many keypoints and world
\* points as descriptor rows, after stage 2 each tag list has one entry per
\* row of its pool, the entry of a row is the id of the cluster the row
\* came from, every index of a stage-2 match is inside its tag list, and
\* the current cluster is in the current pool once.
C24_PoolTagging ==
  (/\ lastCall.called
   /\ lastCall.gate_passed
   /\ SizesAgree(c_cluster_)
   /\ \A i \in DOMAIN lastCall.cpool : SizesAgree(ReadCluster(lastCall.cpool[i]))
   /\ \A i \in DOMAIN lastCall.fpool : SizesAgree(ReadCluster(lastCall.fpool[i])))
  =>
  (/\ Len(lastCall.cluster_candidate_list) = SumSeq(CandidatePoolRows)
   /\ Len(lastCall.cluster_frame_list) = SumSeq(CurrentPoolRows)
   /\ \A k \in DOMAIN lastCall.cluster_candidate_list :
        lastCall.cluster_candidate_list[k]
          = OwnerOfRow(lastCall.cpool, CandidatePoolRows, k)
   /\ \A k \in DOMAIN lastCall.cluster_frame_list :
        lastCall.cluster_frame_list[k]
          = OwnerOfRow(lastCall.fpool, CurrentPoolRows, k)
   /\ \A j \in DOMAIN lastCall.match_idx :
        /\ lastCall.match_idx[j].queryIdx \in DOMAIN lastCall.cluster_frame_list
        /\ lastCall.match_idx[j].trainIdx \in DOMAIN lastCall.cluster_candidate_list
   /\ Cardinality({i \in DOMAIN lastCall.fpool : lastCall.fpool[i] = c_cluster_.id}) = 1
   /\ lastCall.fpool[1] = c_cluster_.id)

\* Stage 2 has run on a candidate pool of two clusters and a current pool of
\* two clusters, and matches fall in the second cluster of each pool.
C24_Witness ==
  /\ lastCall.called
  /\ lastCall.gate_passed
  /\ Len(lastCall.cpool) = 2
  /\ Len(lastCall.fpool) = 2
  /\ \E j \in DOMAIN lastCall.match_idx :
       lastCall.cluster_frame_list[lastCall.match_idx[j].queryIdx] = lastCall.fpool[2]
  /\ \E j \in DOMAIN lastCall.match_idx :
       lastCall.cluster_candidate_list[lastCall.match_idx[j].trainIdx] = lastCall.cpool[2]

\* ------------------------------------------------------------------ C25
\* C25 as stated: whatever unique, increasing ids the clusters have, a hash
\* search that gets past the history check reads its query hash at a
\* position inside the table, from the entry of the current cluster.
C25_QueryHashIsOwnHash ==
  (getCandidatesCall.asked /\ ~getCandidatesCall.early)
    => /\ getCandidatesCall.query_pos \in DOMAIN hash_table_
       /\ hash_table_[getCandidatesCall.query_pos][1] = c_cluster_.id

\* ------------------------------------------------------------------ C26
\* C26 as stated: a call of closeLoopWithCluster that returns true (current
\* cluster with descriptors) has added an edge and appended a record.
C26_SuccessAddsAnEdge ==
  (lastCall.called /\ lastCall.ret /\ lastCall.cur_rows > 0)
    => (Len(lastCall.edges) >= 1 /\ Len(lastCall.records) >= 1)

\* ------------------------------------------------------------------ C27
\* C27: when the driver is about to take the mutex in processNewCluster, or
\* holds it and is about to read front() and pop, the queue is not empty,
\* whatever the producer has done since the emptiness check.
C27_PopFindsACluster ==
  (driver_pc \in {"process", "process_locked"}) => cluster_queue_ # <<>>

\* The producer holds the mutex between the emptiness check of the driver
\* and its pop: the driver has seen one cluster queued and waits for the
\* mutex while the producer is about to push another.
C27_Witness ==
  /\ driver_pc = "process"
  /\ producer_pc = "push_locked"
  /\ mutex_cluster_queue_ = "producer"
  /\ Len(cluster_queue_) = 1

\* ------------------------------------------------------------------ C28
\* The cluster ids of the entries of the hash table.
HashTableIds == {hash_table_[i][1] : i \in DOMAIN hash_table_}

\* C28: while a candidate search of a tick runs, whether or not the scratch
\* directory was created at startup, the ids in the hash table are the ids that have a
\* file in the store, so every candidate of the hash search can be read.
C28_TableAndStoreAgree ==
  Searching(driver_pc)
    => /\ HashTableIds = DOMAIN store
       /\ \A k \in DOMAIN candidates :
            driver_pc = "hash_loop" => candidates[k] \in DOMAIN store

\* The hash search runs over candidates it got from a table of all clusters.
C28_Witness ==
  /\ driver_pc = "hash_loop"
  /\ Len(candidates) >= 1
  /\ Len(hash_table_) = MaxClusters
  /\ HashTableIds = DOMAIN store

\* ------------------------------------------------------------------ C29
\* msgsCallback is inside vertexInsertion or pushing to pose_history_.
Inserting == msgs_pc \in {"inserting", "history"}

\* graph_optimizer_.optimize is in progress in some timerCallback.
Optimizing == \E t \in 1..MaxTimerEvents : timer_pc[t] = "optimizing"

\* Some timerCallback is between its two writes of block_insertion_.
InsertionBlockedBy(t) == timer_pc[t] \in {"optimize", "optimizing", "unblock"}

\* C29 as stated: no vertex insertion or pose_history_ push goes on while
\* the optimizer runs, and block_insertion_ is set only while a
\* timerCallback is between setting and clearing it.
C29_NoInsertionWhileOptimizing ==
  /\ ~(Inserting /\ Optimizing)
  /\ block_insertion_ => \E t \in 1..MaxTimerEvents : InsertionBlockedBy(t)

\* ------------------------------------------------------------------ C30
\* The invocation is in the body of timerCallback, past line 139.
InBody(t) ==
  timer_pc[t] \in {"update", "block", "optimize", "optimizing", "unblock", "save",
                   "reset"}

\* C30 as stated: at most one invocation of timerCallback is in the body at
\* a time, and block_update_ is set only while one is.
C30_TimerCallbackNotReentrant ==
  /\ Cardinality({t \in 1..MaxTimerEvents : InBody(t)}) <= 1
  /\ block_update_ => \E t \in 1..MaxTimerEvents : InBody(t)

====
